---- MODULE Spec2Model ----
(***************************************************************************)
(* The streaming chat pipeline of techsurf-chat-agent.                     *)
(*                                                                         *)
(*   Spec       - the POST /stream handler of server/src/routes/chat.ts,   *)
(*                one request, driven by the AsyncIterable<StreamChunk>    *)
(*                that services.llm.generateStreamingResponse resolves to  *)
(*                (the interface the handler is typed against).            *)
(*   SpecParser - LLMService.createStreamIterator reading one upstream     *)
(*                body in chunks of every size, and what the generator     *)
(*                LLMService.parseStreamResponse delivers of it.           *)
(*   SpecCancel - Spec with the caller closing the connection mid-stream.  *)
(*   SpecWidget - the two chat widgets of sdk/ (rollup.config.js and       *)
(*                src/UniversalChatWidget.ts) sending one message and      *)
(*                reading the /stream response in chunks of every size,    *)
(*                with unmount() for the widget that can abort.            *)
(*                                                                         *)
(* Text is a sequence of one-character strings; bytes are strings too      *)
(* (an ASCII byte is its character; the character U+00E9, written "E9",    *)
(* is the two bytes "C3" "A9").                                            *)
(***************************************************************************)
EXTENDS Integers, Sequences, FiniteSets, TLC

VARIABLES
    \* ---- POST /stream handler (chat.ts) ----
    pc,         \* position of the handler
    req,        \* the request: body.messages and app.locals.services.llm
    cur,        \* the chunk the for-await loop body is working on
    tcIdx,      \* index into cur's delta.tool_calls
    delivered,  \* chunks the for-await has pulled from the iterable so far
    written,    \* res.write calls so far, in order
    ended,      \* res.end() was called
    lookups,    \* ContentstackService.queryContent calls so far, in order
    thrown,     \* the exception travelling to the catch block
    clientGone, \* the caller's connection has closed
    \* ---- LLMService.createStreamIterator (llm-service.ts) ----
    ppc,        \* position of the generator
    lineIds,    \* the upstream body as a list of line names
    pos,        \* bytes of the body already handed out in chunks
    buffer,     \* `buffer`: the undecoded-line tail
    yielded,    \* records yielded so far
    bufferRef,  \* the same generator fed the same chunks minus the skipped lines
    yieldedRef,
    openEnded,  \* the upstream body ends without the newline of its last line
    \* ---- the chat widgets (sdk/rollup.config.js, sdk/src/UniversalChatWidget.ts) ----
    widget,           \* which implementation runs: "rollup" or "ts"
    wpc,              \* position of sendMessage: the await it is suspended at
    wbody,            \* the response body as a list of frame names
    wpos,             \* bytes of the body already handed out by reader.read()
    wbuffer,          \* rollup: `buffer`, the incomplete last line
    wpending,         \* rollup: bytes the streaming TextDecoder holds back
    assistantMessage, \* rollup: assistantMessage.content or Null; ts: the string
    messageElement,   \* text of the assistant's message element, Null before it exists
    wmessages,        \* rollup: state.messages; ts: this.messages
    received,         \* config.onMessageReceived calls, in order
    errors,           \* number of config.onError calls
    decoded,          \* frames JSON.parse has handed to the consumer, in order
    aborted,          \* rollup: abortController.abort() was called
    entry,            \* how the turn began: "input" (the send button) or "api" (sendMessage)
    posted,           \* `messages` of the request body handed to fetch
    requests,         \* rollup, overlapping turns: each sendMessage call's stream
    abortController,  \* rollup: the call whose controller this.abortController holds, 0 for none
    unmounted,        \* rollup: unmount() has run
    \* ---- CacheService.getOrSet (cache-service.ts) ----
    cpc,          \* position of getOrSet: the await it is suspended at
    impl,         \* which of the file's two CacheService classes runs
    store,        \* what Redis holds under the key, Absent for nothing
    redisUp,      \* Redis answers during this call
    cached,       \* `cached`: what this.get resolved to
    freshData,    \* `value` / `freshData`: what the factory resolved to
    factoryCalls, \* invocations of the factory in this getOrSet call
    returned,     \* how the getOrSet call settled
    callsMade     \* getOrSet calls so far

relayVars == <<pc, req, cur, tcIdx, delivered, written, ended, lookups, thrown, clientGone>>
parserVars == <<ppc, lineIds, pos, buffer, yielded, bufferRef, yieldedRef, openEnded>>
widgetVars == <<widget, wpc, wbody, wpos, wbuffer, wpending, assistantMessage,
                messageElement, wmessages, received, errors, decoded, aborted,
                entry, posted, requests, abortController, unmounted>>
cacheVars == <<cpc, impl, store, redisUp, cached, freshData, factoryCalls, returned,
               callsMade>>
vars == <<pc, req, cur, tcIdx, delivered, written, ended, lookups, thrown, clientGone,
          ppc, lineIds, pos, buffer, yielded, bufferRef, yieldedRef, openEnded,
          widget, wpc, wbody, wpos, wbuffer, wpending, assistantMessage,
          messageElement, wmessages, received, errors, decoded, aborted, entry, posted,
          requests, abortController, unmounted,
          cpc, impl, store, redisUp, cached, freshData, factoryCalls, returned, callsMade>>

\* ------------------------------------------------------------------ bounds
MaxDeltas == 2
MaxLines == 3

\* ------------------------------------------------------------- generic
Last(s) == s[Len(s)]

RECURSIVE Concat(_)
Concat(ss) == IF ss = <<>> THEN <<>> ELSE Head(ss) \o Concat(Tail(ss))

\* JS `undefined` for an optional string field
Undefined == "undefined"

\* ============================================================ chat.ts
KnownTool == "query_contentstack_content"

\* ---- JSON text of tool-call arguments.  Tokens: the braces, and one token
\* per member: "c" is "content_type":"product", "q" is "query":"laptop",
\* "l" is "limit":3, "z" is "limit":0 (separating commas are part of the
\* member tokens).
MemberTokens == {"c", "q", "l", "z"}

\* JSON.parse on argument text: an object when the text is "{" members "}",
\* a SyntaxError otherwise.
JSONValid(text) ==
    /\ Len(text) >= 2
    /\ text[1] = "{"
    /\ text[Len(text)] = "}"
    /\ \A i \in 2..(Len(text) - 1) : text[i] \in MemberTokens

JSONParse(text) == {text[i] : i \in 2..(Len(text) - 1)}

\* seeded fault: a limit of 0 is passed on as it is
OrDefaultKeepsZero(n) == n

\* chat.ts 87: `args.limit || 5` for a limit that is present
OrDefault(n) == IF n = 0 THEN 5 ELSE n

\* the (content_type, query, limit) the handler passes to queryContent
LookupArgs(args) ==
    [content_type |-> IF "c" \in args THEN "product" ELSE Undefined,
     query        |-> IF "q" \in args THEN "laptop" ELSE "",
     limit        |-> IF "l" \in args THEN OrDefault(3)
                      ELSE IF "z" \in args THEN OrDefault(0) ELSE 5]

\* JSON.stringify of a value written into a frame
JSONStringify(v) == <<"json", v>>

\* ---- frames.  Every res.write of the handler is `data: ${payload}\\n\\n`
\* inside a template literal (or the same in a quoted string for [DONE]).
FrameEnd == <<"\\", "n", "\\", "n">>
Frame(payload) == [data |-> payload, end |-> FrameEnd]

DoneFrame == Frame([type |-> "[DONE]"])
ContentFrame(c, fin) == Frame([type |-> "content", content |-> c, finish_reason |-> fin])
ToolResultFrame(id, results) ==
    Frame([type |-> "tool_result", tool_call_id |-> id, content |-> JSONStringify(results)])
\* seeded fault: a tool failure reported as a stream error
ToolErrorFrameAsError(id, msg) == Frame([type |-> "error", tool_call_id |-> id, error |-> msg])

ToolErrorFrame(id, msg) == Frame([type |-> "tool_error", tool_call_id |-> id, error |-> msg])
CompletionFrame(fin, usage) ==
    Frame([type |-> "completion", finish_reason |-> fin, usage |-> usage])
ErrorFrame(msg) == Frame([type |-> "error", error |-> msg])
ValidationFrame == Frame([type |-> Undefined, error |-> "Validation failed"])

\* ---- the request (body.messages, app.locals.services.llm, GROQ_API_KEY)
NotArray == <<[role |-> "notArray", content |-> "notArray"]>>
Messages ==
    {NotArray, <<>>,
     <<[role |-> "user", content |-> "hi"]>>,
     <<[role |-> "bogus", content |-> "hi"]>>,
     <<[role |-> "user", content |-> ""]>>}

Roles == {"user", "assistant", "system"}

\* validateChatRequest followed by validationResult(req).isEmpty()
validateChatRequest(messages) ==
    /\ messages # NotArray                                     \* isArray()
    /\ \A i \in DOMAIN messages : messages[i].content # ""      \* messages.*.content notEmpty()
    /\ \A i \in DOMAIN messages : messages[i].role \in Roles    \* messages.*.role isIn([...])

Requests == [messages : Messages, llm : BOOLEAN, apiKey : BOOLEAN]

\* ---- what axios.post resolves or rejects with
AxiosOk == [ok |-> TRUE, isError |-> TRUE, message |-> ""]
AxiosOutcomes ==
    {AxiosOk,
     [ok |-> FALSE, isError |-> TRUE, message |-> "connect ECONNREFUSED"],
     [ok |-> FALSE, isError |-> TRUE, message |-> "Request failed with status code 500"],
     [ok |-> FALSE, isError |-> FALSE, message |-> "not an Error"]}

\* LLMService.generateStreamingResponse up to its return or throw:
\* the message of the Error it throws, or "" when it returns the iterable.
generateStreamingResponse(apiKey, axios) ==
    IF ~apiKey THEN "Provider groq not available"
    ELSE IF axios.ok THEN ""
    ELSE IF axios.isError THEN axios.message
    ELSE "Failed to generate response"

\* ---- the chunks an AsyncIterable<StreamChunk> can deliver
ArgsFull == <<"{", "c", "q", "}">>
ArgsHead == <<"{", "c">>
ArgsTail == <<"q", "}">>

ToolCall(id, name, arguments) == [id |-> id, name |-> name, arguments |-> arguments]

ToolCallArrays ==
    {<<>>,
     <<ToolCall("t1", KnownTool, ArgsFull)>>,
     <<ToolCall("t1", KnownTool, ArgsHead)>>,
     <<ToolCall("t1", KnownTool, ArgsTail)>>,
     <<ToolCall("t1", Undefined, ArgsTail)>>,
     <<ToolCall("t1", Undefined, ArgsFull)>>,
     <<ToolCall("t1", KnownTool, <<>>)>>,
     <<ToolCall("t2", "other_tool", ArgsFull)>>,
     <<ToolCall("t2", "other_tool", ArgsFull), ToolCall("t1", KnownTool, ArgsFull)>>}

Contents == {Undefined, "", "a", "b"}

Finishes ==
    {[finish_reason |-> Undefined, usage |-> Undefined],
     [finish_reason |-> "stop", usage |-> "usage"],
     [finish_reason |-> "length", usage |-> Undefined]}

\* StreamChunk (llm-service.ts 16-35): choices[0] and its delta are optional
Chunk(choice, delta, content, tool_calls, fin) ==
    [choice |-> choice, delta |-> delta, content |-> content, tool_calls |-> tool_calls,
     finish_reason |-> fin.finish_reason, usage |-> fin.usage]

\* a chunk without choices[0] (a keep-alive or usage-only record)
NoChoice ==
    Chunk(FALSE, FALSE, Undefined, <<>>, [finish_reason |-> Undefined, usage |-> Undefined])

\* a chunk whose choices[0] has no delta
NoDelta ==
    Chunk(TRUE, FALSE, Undefined, <<>>, [finish_reason |-> Undefined, usage |-> Undefined])

\* content-only chunks with every content, tool-call chunks with and without content
Chunks ==
    {NoChoice, NoDelta}
    \cup {Chunk(TRUE, TRUE, c, <<>>, f) : c \in Contents, f \in Finishes}
    \cup {Chunk(TRUE, TRUE, c, t, f) :
              c \in {Undefined, "a"}, t \in ToolCallArrays \ {<<>>}, f \in Finishes}

\* JS truthiness of an optional string
Truthy(s) == s # Undefined /\ s # ""

\* ---- what ContentstackService.queryContent does for the handler
LookupOutcomes ==
    {[ok |-> TRUE, results |-> <<>>, message |-> ""],
     [ok |-> TRUE, results |-> <<"entry1", "entry2">>, message |-> ""],
     [ok |-> FALSE, results |-> <<>>, message |-> "Failed to query Contentstack content"]}

NoChunk == NoChoice

InitRelay ==
    /\ pc = "start"
    /\ req \in Requests
    /\ cur = NoChunk
    /\ tcIdx = 1
    /\ delivered = <<>>
    /\ written = <<>>
    /\ ended = FALSE
    /\ lookups = <<>>
    /\ thrown = ""
    /\ clientGone = FALSE

\* the relay at rest, for the specifications that do not run it
IdleRelay ==
    /\ pc = "idle"
    /\ req = [messages |-> <<>>, llm |-> FALSE, apiKey |-> FALSE]
    /\ cur = NoChunk
    /\ tcIdx = 1
    /\ delivered = <<>>
    /\ written = <<>>
    /\ ended = FALSE
    /\ lookups = <<>>
    /\ thrown = ""
    /\ clientGone = FALSE

\* chat.ts 33-39: validation
Validate ==
    /\ pc = "start"
    /\ IF validateChatRequest(req.messages)
       THEN /\ pc' = "try"
            /\ UNCHANGED <<written, ended>>
       ELSE /\ written' = Append(written, ValidationFrame)
            /\ ended' = TRUE
            /\ pc' = "closed"
    /\ UNCHANGED <<req, cur, tcIdx, delivered, lookups, thrown>>
    /\ UNCHANGED clientGone
    /\ UNCHANGED parserVars
    /\ UNCHANGED <<widgetVars, cacheVars>>

\* chat.ts 52-55: services?.llm
GetServices ==
    /\ pc = "try"
    /\ IF req.llm
       THEN pc' = "open" /\ thrown' = thrown
       ELSE pc' = "catch" /\ thrown' = "LLM service not available"
    /\ UNCHANGED <<req, cur, tcIdx, delivered, written, ended, lookups>>
    /\ UNCHANGED clientGone
    /\ UNCHANGED parserVars
    /\ UNCHANGED <<widgetVars, cacheVars>>

\* chat.ts 60-65: await llmService.generateStreamingResponse(...)
OpenUpstream ==
    /\ pc = "open"
    /\ \E axios \in AxiosOutcomes :
         LET msg == generateStreamingResponse(req.apiKey, axios) IN
         IF msg = ""
         THEN pc' = "loop" /\ thrown' = thrown
         ELSE pc' = "catch" /\ thrown' = msg
    /\ UNCHANGED <<req, cur, tcIdx, delivered, written, ended, lookups>>
    /\ UNCHANGED clientGone
    /\ UNCHANGED parserVars
    /\ UNCHANGED <<widgetVars, cacheVars>>

\* chat.ts 68: the for-await asks the iterable for its next chunk
NextChunk ==
    /\ pc = "loop"
    /\ Len(delivered) < MaxDeltas
    /\ \E chunk \in Chunks :
         /\ delivered' = Append(delivered, chunk)
         /\ cur' = chunk
         /\ tcIdx' = 1
         /\ IF ~chunk.choice                                     \* chat.ts 69
            THEN pc' = "loop" /\ thrown' = thrown
            ELSE IF ~chunk.delta                                 \* chat.ts 73: TypeError
            THEN pc' = "catch" /\ thrown' = "Cannot read properties of undefined"
            ELSE pc' = "tools" /\ thrown' = thrown
    /\ UNCHANGED <<req, written, ended, lookups>>
    /\ UNCHANGED clientGone
    /\ UNCHANGED parserVars
    /\ UNCHANGED <<widgetVars, cacheVars>>

\* chat.ts 68, 137: the iterable is exhausted
StreamEnd ==
    /\ pc = "loop"
    /\ pc' = "finally"
    /\ UNCHANGED <<req, cur, tcIdx, delivered, written, ended, lookups, thrown>>
    /\ UNCHANGED clientGone
    /\ UNCHANGED parserVars
    /\ UNCHANGED <<widgetVars, cacheVars>>

\* chat.ts 68, 139: the iterable rejects (the upstream body errors mid-way)
StreamThrows ==
    /\ pc = "loop"
    /\ pc' = "catch"
    /\ thrown' = "aborted"
    /\ UNCHANGED <<req, cur, tcIdx, delivered, written, ended, lookups>>
    /\ UNCHANGED clientGone
    /\ UNCHANGED parserVars
    /\ UNCHANGED <<widgetVars, cacheVars>>

\* seeded fault: the tool is dispatched whatever its name
HandleToolCallAnyName(toolCall, outcome) ==
    LET text == IF toolCall.arguments = <<>> THEN <<"{", "}">> ELSE toolCall.arguments IN
    IF ~JSONValid(text)
    THEN /\ written' = Append(written,
               ToolErrorFrame(toolCall.id, "Unexpected end of JSON input"))
         /\ UNCHANGED lookups
    ELSE /\ lookups' = Append(lookups,
               [id |-> toolCall.id, args |-> LookupArgs(JSONParse(text)),
                ok |-> outcome.ok, results |-> outcome.results])
         /\ written' = Append(written,
               IF outcome.ok
               THEN ToolResultFrame(toolCall.id, outcome.results)
               ELSE ToolErrorFrame(toolCall.id, outcome.message))

\* chat.ts 76-110: one tool call of the current delta
HandleToolCall(toolCall, outcome) ==
    IF toolCall.name # KnownTool                                  \* chat.ts 77
    THEN UNCHANGED <<written, lookups>>
    ELSE LET text == IF toolCall.arguments = <<>> THEN <<"{", "}">>
                     ELSE toolCall.arguments                      \* arguments || '{}'
         IN
         IF ~JSONValid(text)                                      \* JSON.parse throws
         THEN /\ written' = Append(written,
                    ToolErrorFrame(toolCall.id, "Unexpected end of JSON input"))
              /\ UNCHANGED lookups
         ELSE /\ lookups' = Append(lookups,
                    [id |-> toolCall.id, args |-> LookupArgs(JSONParse(text)),
                     ok |-> outcome.ok, results |-> outcome.results])
              /\ written' = Append(written,
                    IF outcome.ok
                    THEN ToolResultFrame(toolCall.id, outcome.results)
                    ELSE ToolErrorFrame(toolCall.id, outcome.message))

ToolCallStep ==
    /\ pc = "tools"
    /\ tcIdx <= Len(cur.tool_calls)
    /\ \E outcome \in LookupOutcomes :
         HandleToolCall(cur.tool_calls[tcIdx], outcome)
    /\ tcIdx' = tcIdx + 1
    /\ UNCHANGED <<pc, req, cur, delivered, ended, thrown>>
    /\ UNCHANGED clientGone
    /\ UNCHANGED parserVars
    /\ UNCHANGED <<widgetVars, cacheVars>>

\* seeded fault: the completion branch without its `break`
AfterCompletionNoBreak == "loop"

\* chat.ts 134: `break` leaves the for-await for the finally block
AfterCompletion == "finally"

\* seeded fault: the content branch skipped on the delta that carries finish_reason
WithContentLostOnFinish(frames, chunk) ==
    IF Truthy(chunk.content) /\ ~Truthy(chunk.finish_reason)
    THEN Append(frames, ContentFrame(chunk.content, chunk.finish_reason))
    ELSE frames

\* chat.ts 114-123: the content branch
WithContent(frames, chunk) ==
    IF Truthy(chunk.content)                                      \* chat.ts 115
    THEN Append(frames, ContentFrame(chunk.content, chunk.finish_reason))
    ELSE frames

\* chat.ts 114-135: content, then completion and break
ContentAndCompletion ==
    /\ pc = "tools"
    /\ tcIdx > Len(cur.tool_calls)
    /\ IF Truthy(cur.finish_reason)                               \* chat.ts 126
       THEN /\ written' = Append(WithContent(written, cur),
                 CompletionFrame(cur.finish_reason,
                     IF cur.usage = Undefined THEN "null" ELSE cur.usage))
            /\ pc' = AfterCompletion
       ELSE /\ written' = WithContent(written, cur)
            /\ pc' = "loop"
    /\ UNCHANGED <<req, cur, tcIdx, delivered, ended, lookups, thrown>>
    /\ UNCHANGED clientGone
    /\ UNCHANGED parserVars
    /\ UNCHANGED <<widgetVars, cacheVars>>

\* seeded fault: a catch block that terminates the stream itself
CatchAlsoDone ==
    /\ pc = "catch"
    /\ written' = written \o <<ErrorFrame(thrown), DoneFrame>>
    /\ pc' = "finally"
    /\ UNCHANGED <<req, cur, tcIdx, delivered, ended, lookups, thrown>>
    /\ UNCHANGED clientGone
    /\ UNCHANGED parserVars
    /\ UNCHANGED <<widgetVars, cacheVars>>

\* seeded fault: a catch block that only logs
CatchOnlyLogs ==
    /\ pc = "catch"
    /\ pc' = "finally"
    /\ UNCHANGED <<req, cur, tcIdx, delivered, written, ended, lookups, thrown>>
    /\ UNCHANGED clientGone
    /\ UNCHANGED parserVars
    /\ UNCHANGED <<widgetVars, cacheVars>>

\* seeded fault: the stream goes on after an exception was reported
CatchThenLoop ==
    /\ pc = "catch"
    /\ written' = Append(written, ErrorFrame(thrown))
    /\ pc' = "loop"
    /\ UNCHANGED <<req, cur, tcIdx, delivered, ended, lookups, thrown>>
    /\ UNCHANGED clientGone
    /\ UNCHANGED parserVars
    /\ UNCHANGED <<widgetVars, cacheVars>>

\* chat.ts 139-148
Catch ==
    /\ pc = "catch"
    /\ written' = Append(written, ErrorFrame(thrown))
    /\ pc' = "finally"
    /\ UNCHANGED <<req, cur, tcIdx, delivered, ended, lookups, thrown>>
    /\ UNCHANGED clientGone
    /\ UNCHANGED parserVars
    /\ UNCHANGED <<widgetVars, cacheVars>>

\* chat.ts 149-152
Finally ==
    /\ pc = "finally"
    /\ written' = Append(written, DoneFrame)
    /\ ended' = TRUE
    /\ pc' = "closed"
    /\ UNCHANGED <<req, cur, tcIdx, delivered, lookups, thrown>>
    /\ UNCHANGED clientGone
    /\ UNCHANGED parserVars
    /\ UNCHANGED <<widgetVars, cacheVars>>

IdleParser ==
    /\ ppc = "idle"
    /\ lineIds = <<>>
    /\ pos = 0
    /\ buffer = <<>>
    /\ yielded = <<>>
    /\ bufferRef = <<>>
    /\ yieldedRef = <<>>
    /\ openEnded = FALSE

\* JS `null`, among values that are texts
Null == <<"null">>

\* the widgets at rest, for the specifications that do not run them
IdleWidget ==
    /\ widget = "rollup"
    /\ wpc = "idle"
    /\ wbody = <<>>
    /\ wpos = 0
    /\ wbuffer = <<>>
    /\ wpending = <<>>
    /\ assistantMessage = Null
    /\ messageElement = Null
    /\ wmessages = <<>>
    /\ received = <<>>
    /\ errors = 0
    /\ decoded = <<>>
    /\ aborted = FALSE
    /\ entry = "none"
    /\ posted = <<>>
    /\ requests = <<>>
    /\ abortController = 0
    /\ unmounted = FALSE

\* ============================================================ cache-service.ts
\* The file holds two CacheService classes, each with a getOrSet:
\* class 1 at 281-313 (get 95-110, set 112-133), class 2 at 741-770
\* (get 507-518, set 520-530).
Impls == {1, 2}

MaxGetOrSetCalls == 2

\* nothing stored under the key
Absent == <<"absent">>

\* what the factory can resolve to
FactoryValues == {"a", "b"}

\* JSON.stringify of a factory value, and a stored text that is not JSON
Serialize(v) == <<"{", v, "}">>
Garbage == <<"{", "a">>

\* JSON.parse on a stored text: a value, or a SyntaxError
Parses(text) == Len(text) = 3 /\ text[1] = "{" /\ text[3] = "}"
Deserialize(text) == text[2]

StoredTexts == {Serialize(v) : v \in FactoryValues} \cup {Garbage}

\* how a getOrSet call can settle, besides resolving to a factory value
Pending == "pending"
ResolvedNull == "null"
RejectedCall == "rejected"

\* this.get: cache-service.ts 95-110 resolves to the parsed value, and to null
\* when Redis is down, the key is absent or the text does not parse;
\* 507-518 resolves to the stored text, and to null when Redis is down or the
\* key is absent
CacheGet(i, up, stored) ==
    IF ~up \/ stored = Absent THEN Null
    ELSE IF i = 1 THEN (IF Parses(stored) THEN <<Deserialize(stored)>> ELSE Null)
    ELSE stored

\* this.set: cache-service.ts 112-133, 520-530 never reject; the text is
\* stored when Redis answers
CacheSet(up, stored, v) == IF up THEN Serialize(v) ELSE stored

IdleCache ==
    /\ cpc = "idle"
    /\ impl = 1
    /\ store = Absent
    /\ redisUp = TRUE
    /\ cached = Null
    /\ freshData = Null
    /\ factoryCalls = 0
    /\ returned = Pending
    /\ callsMade = 0

InitCache ==
    /\ cpc = "idle"
    /\ impl \in Impls
    /\ store \in {Absent} \cup StoredTexts
    /\ redisUp \in BOOLEAN
    /\ cached = Null
    /\ freshData = Null
    /\ factoryCalls = 0
    /\ returned = Pending
    /\ callsMade = 0

CacheUnchanged == UNCHANGED <<relayVars, parserVars, widgetVars>>

\* a caller invokes getOrSet(key, factory): cache-service.ts 281-287, 741-749
GetOrSet ==
    /\ cpc \in {"idle", "settled"}
    /\ callsMade < MaxGetOrSetCalls
    /\ callsMade' = callsMade + 1
    /\ cpc' = "get"
    /\ redisUp' \in BOOLEAN
    /\ cached' = Null
    /\ freshData' = Null
    /\ factoryCalls' = 0
    /\ returned' = Pending
    /\ UNCHANGED <<impl, store>>
    /\ CacheUnchanged

\* `await this.get(key)` resolves and the hit is returned:
\* cache-service.ts 288-292; 750-754, where the stored text is parsed and a
\* SyntaxError goes to the catch block
GetResolves ==
    /\ cpc = "get"
    /\ cached' = CacheGet(impl, redisUp, store)
    /\ IF cached' = Null
       THEN cpc' = "factory" /\ UNCHANGED returned
       ELSE IF impl = 1
       THEN cpc' = "settled" /\ returned' = cached'[1]
       ELSE IF Parses(cached')
       THEN cpc' = "settled" /\ returned' = Deserialize(cached')
       ELSE cpc' = "catch" /\ UNCHANGED returned
    /\ UNCHANGED <<impl, store, redisUp, freshData, factoryCalls, callsMade>>
    /\ CacheUnchanged

\* `await factory()` settles: cache-service.ts 294-295; 757-758
FactorySettles ==
    /\ cpc = "factory"
    /\ factoryCalls' = factoryCalls + 1
    /\ \E out \in FactoryValues \cup {"throw"} :
         IF out = "throw"
         THEN cpc' = "catch" /\ UNCHANGED freshData
         ELSE cpc' = "set" /\ freshData' = <<out>>
    /\ UNCHANGED <<impl, store, redisUp, cached, returned, callsMade>>
    /\ CacheUnchanged

\* `await this.set(...)` resolves and the fresh value is returned:
\* cache-service.ts 298-300; 761-764
SetResolves ==
    /\ cpc = "set"
    /\ store' = CacheSet(redisUp, store, freshData[1])
    /\ returned' = freshData[1]
    /\ cpc' = "settled"
    /\ UNCHANGED <<impl, redisUp, cached, freshData, factoryCalls, callsMade>>
    /\ CacheUnchanged

\* the catch block calls the factory: cache-service.ts 302-312 (a second
\* failure resolves to null); 765-769 (a second failure rejects)
CatchFallback ==
    /\ cpc = "catch"
    /\ factoryCalls' = factoryCalls + 1
    /\ \E out \in FactoryValues \cup {"throw"} :
         returned' = IF out # "throw" THEN out
                     ELSE IF impl = 1 THEN ResolvedNull ELSE RejectedCall
    /\ cpc' = "settled"
    /\ UNCHANGED <<impl, store, redisUp, cached, freshData, callsMade>>
    /\ CacheUnchanged

NextCache ==
    \/ GetOrSet
    \/ GetResolves
    \/ FactorySettles
    \/ SetResolves
    \/ CatchFallback

InitCacheSpec == IdleRelay /\ IdleParser /\ IdleWidget /\ InitCache

SpecCache == InitCacheSpec /\ [][NextCache]_vars

Init == InitRelay /\ IdleParser /\ IdleWidget /\ IdleCache

Next ==
    \/ Validate
    \/ GetServices
    \/ OpenUpstream
    \/ NextChunk
    \/ StreamEnd
    \/ StreamThrows
    \/ ToolCallStep
    \/ ContentAndCompletion
    \/ Catch
    \/ Finally

Spec == Init /\ [][Next]_vars

\* ---- the handler fed deltas that each carry one query_contentstack_content
\* call with complete arguments: every choice of the three members
MaxToolDeltas == 1

LookupArgTexts ==
    {<<"{">> \o c \o q \o l \o <<"}">> :
        c \in {<<"c">>, <<>>}, q \in {<<"q">>, <<>>}, l \in {<<"l">>, <<"z">>, <<>>}}

ToolChunks ==
    {Chunk(TRUE, TRUE, Undefined, <<ToolCall(id, KnownTool, text)>>, f) :
        id \in {"t1", "t2"}, text \in LookupArgTexts, f \in Finishes}

\* chat.ts 68: the for-await asks the iterable for its next chunk
NextToolChunk ==
    /\ pc = "loop"
    /\ Len(delivered) < MaxToolDeltas
    /\ \E chunk \in ToolChunks :
         /\ delivered' = Append(delivered, chunk)
         /\ cur' = chunk
    /\ tcIdx' = 1
    /\ pc' = "tools"
    /\ UNCHANGED <<req, written, ended, lookups, thrown>>
    /\ UNCHANGED clientGone
    /\ UNCHANGED parserVars
    /\ UNCHANGED <<widgetVars, cacheVars>>

NextLookup ==
    \/ Validate
    \/ GetServices
    \/ OpenUpstream
    \/ NextToolChunk
    \/ StreamEnd
    \/ StreamThrows
    \/ ToolCallStep
    \/ ContentAndCompletion
    \/ Catch
    \/ Finally

SpecLookup == Init /\ [][NextLookup]_vars

\* the caller goes away while the handler is streaming.  The handler registers
\* no 'close' listener on req or res and hands no abort signal to
\* generateStreamingResponse (llm-service.ts 144-154): nothing of its state changes.
Disconnect ==
    /\ pc \in {"loop", "tools"}
    /\ ~clientGone
    /\ clientGone' = TRUE
    /\ UNCHANGED <<pc, req, cur, tcIdx, delivered, written, ended, lookups, thrown>>
    /\ UNCHANGED parserVars
    /\ UNCHANGED <<widgetVars, cacheVars>>

NextCancel ==
    \/ Validate
    \/ GetServices
    \/ OpenUpstream
    \/ NextChunk
    \/ StreamEnd
    \/ StreamThrows
    \/ ToolCallStep
    \/ ContentAndCompletion
    \/ Catch
    \/ Finally
    \/ Disconnect

SpecCancel == Init /\ [][NextCancel]_vars



\* ====================================================== llm-service.ts
\* ---- text and bytes.  "E9" is the character U+00E9, two bytes in UTF-8;
\* "FFFD" is the replacement character a decoder puts for a broken sequence.
NL == "\n"
Prefix == <<"d", "a", "t", "a", ":", " ">>
DoneToken == <<"[", "D", "O", "N", "E", "]">>

Utf8Encode(text) ==
    Concat([i \in DOMAIN text |->
               IF text[i] = "E9" THEN <<"C3", "A9">> ELSE <<text[i]>>])

\* chunk.toString(): a one-shot UTF-8 decode of one chunk.  A decode is local
\* but for the pair "C3" "A9", so a long chunk is decoded in two halves cut
\* where no pair is split.
RECURSIVE toString(_)
toString(bytes) ==
    IF bytes = <<>> THEN <<>>
    ELSE IF Len(bytes) = 1
    THEN IF bytes[1] \in {"C3", "A9"} THEN <<"FFFD">> ELSE bytes
    ELSE IF Len(bytes) = 2
    THEN IF bytes = <<"C3", "A9">> THEN <<"E9">>
         ELSE toString(<<bytes[1]>>) \o toString(<<bytes[2]>>)
    ELSE LET half == Len(bytes) \div 2
             cut == IF bytes[half] = "C3" /\ bytes[half + 1] = "A9" THEN half + 1 ELSE half
         IN toString(SubSeq(bytes, 1, cut)) \o toString(SubSeq(bytes, cut + 1, Len(bytes)))

\* String.prototype.split('\n')
RECURSIVE Split(_)
Split(text) ==
    IF \A i \in DOMAIN text : text[i] # NL THEN <<text>>
    ELSE LET i == CHOOSE k \in DOMAIN text :
                      text[k] = NL /\ \A j \in 1..(k - 1) : text[j] # NL
         IN <<SubSeq(text, 1, i - 1)>> \o Split(SubSeq(text, i + 1, Len(text)))

StartsWith(text, prefix) ==
    Len(text) >= Len(prefix) /\ SubSeq(text, 1, Len(prefix)) = prefix

\* String.prototype.trim()
RECURSIVE Trim(_)
Trim(text) ==
    IF text = <<>> THEN text
    ELSE IF Head(text) = " " THEN Trim(Tail(text))
    ELSE IF Last(text) = " " THEN Trim(SubSeq(text, 1, Len(text) - 1))
    ELSE text

\* JSON.parse on an upstream record: "{" fragment "}" stands for the object
\* {"choices":[{"delta":{"content":"fragment"}}]}; anything else throws.
RecordChars == {"a", "b", "E9", "FFFD"}
RecordValid(data) ==
    /\ Len(data) >= 2
    /\ data[1] = "{"
    /\ data[Len(data)] = "}"
    /\ \A i \in 2..(Len(data) - 1) : data[i] \in RecordChars

RecordParse(data) == SubSeq(data, 2, Len(data) - 1)

\* seeded fault: a record that fails to parse ends the iteration
HandleLineAbortOnBad(line) ==
    IF ~StartsWith(line, Prefix) THEN "skip"
    ELSE LET data == Trim(SubSeq(line, 7, Len(line))) IN
         IF data = DoneToken THEN "return"
         ELSE IF RecordValid(data) THEN "yield"
         ELSE "return"

\* llm-service.ts 183-197: what the loop body does with one line
HandleLine(line) ==
    IF ~StartsWith(line, Prefix) THEN "skip"                      \* 183
    ELSE LET data == Trim(SubSeq(line, 7, Len(line))) IN          \* 184
         IF data = DoneToken THEN "return"                        \* 186-188
         ELSE IF RecordValid(data) THEN "yield"                   \* 191-192
         ELSE "skip"                                              \* 193-196

\* llm-service.ts 182-198: the complete lines of one chunk, in order
RECURSIVE ProcessLines(_)
ProcessLines(lines) ==
    IF lines = <<>> THEN [out |-> <<>>, returned |-> FALSE]
    ELSE LET what == HandleLine(Head(lines)) IN
         IF what = "return" THEN [out |-> <<>>, returned |-> TRUE]
         ELSE LET rest == ProcessLines(Tail(lines)) IN
              [out |-> (IF what = "yield"
                        THEN <<RecordParse(Trim(SubSeq(Head(lines), 7, Len(Head(lines)))))>>
                        ELSE <<>>) \o rest.out,
               returned |-> rest.returned]

\* llm-service.ts 175-198: one turn of the outer for-await on one chunk
ProcessChunk(buf, chunk) ==
    LET text == buf \o toString(chunk)                            \* 176
        lines == Split(text)                                      \* 179
        done == ProcessLines(SubSeq(lines, 1, Len(lines) - 1))
    IN [buffer |-> Last(lines),                                   \* 180
        out |-> done.out, returned |-> done.returned]

\* LLMService.parseStreamResponse, an async generator whose body is one
\* `return new Promise(...)`: it yields nothing and completes with the inner
\* iterator as its return value.
parseStreamResponse(inner) == [yields |-> <<>>, returned |-> inner]

\* what `for await (const chunk of gen)` hands to its body
ForAwait(gen) == gen.yields

\* ---- upstream bodies: lists of newline-terminated lines
LineIds == {"rec_a", "rec_e", "bad", "comment", "blank", "done"}

LineText(id) ==
    CASE id = "rec_a"   -> Prefix \o <<"{", "a", "}">>
      [] id = "rec_e"   -> Prefix \o <<"{", "E9", "}">>
      [] id = "bad"     -> Prefix \o <<"{", "E9">>
      [] id = "comment" -> <<":", "E9">>
      [] id = "blank"   -> <<>>
      [] id = "done"    -> Prefix \o DoneToken

\* lines the iterator has to skip: no `data: ` prefix, or a payload that is
\* neither JSON nor the terminator
SkippedIds == {"bad", "comment", "blank"}

BodyBytes(ids) == Concat([i \in DOMAIN ids |-> Utf8Encode(LineText(ids[i]) \o <<NL>>)])

\* for every byte of the body, whether it belongs to a skipped line
SkipMask(ids) ==
    Concat([i \in DOMAIN ids |->
               [j \in 1..Len(Utf8Encode(LineText(ids[i]) \o <<NL>>)) |-> ids[i] \in SkippedIds]])

Bodies == UNION {[1..n -> LineIds] : n \in 0..MaxLines}

InitParser ==
    /\ ppc = "reading"
    /\ lineIds \in Bodies
    /\ pos = 0
    /\ buffer = <<>>
    /\ yielded = <<>>
    /\ bufferRef = <<>>
    /\ yieldedRef = <<>>
    /\ openEnded = FALSE

\* the bytes the upstream sends: every line with its newline, except that an
\* open-ended body stops before the newline of its last line
UpstreamBytes(ids, open) ==
    LET body == BodyBytes(ids)
    IN IF open /\ ids # <<>> THEN SubSeq(body, 1, Len(body) - 1) ELSE body

UpstreamMask(ids, open) ==
    LET mask == SkipMask(ids)
    IN IF open /\ ids # <<>> THEN SubSeq(mask, 1, Len(mask) - 1) ELSE mask

\* bodies whose last line is a `data: ` record or the terminator
TailIds == {"rec_a", "rec_e", "done"}
TailBodies == {Append(ids, last) : ids \in UNION {[1..n -> LineIds] : n \in 0..(MaxLines - 1)},
                                   last \in TailIds}

InitTail ==
    /\ ppc = "reading"
    /\ lineIds \in TailBodies
    /\ pos = 0
    /\ buffer = <<>>
    /\ yielded = <<>>
    /\ bufferRef = <<>>
    /\ yieldedRef = <<>>
    /\ openEnded = TRUE

\* the bytes of body[from..to] that do not belong to a skipped line
KeptBytes(body, mask, from, to) ==
    LET F[i \in (from - 1)..to] ==
            IF i < from THEN <<>>
            ELSE IF mask[i] THEN F[i - 1] ELSE Append(F[i - 1], body[i])
    IN F[to]

\* llm-service.ts 175: the upstream stream hands over its next n bytes
\* (the singleton sets only name intermediate values)
ReadChunk ==
    /\ ppc = "reading"
    /\ \E body \in {UpstreamBytes(lineIds, openEnded)},
          mask \in {UpstreamMask(lineIds, openEnded)} :
       \E n \in 1..(Len(body) - pos) :
       \E step \in {ProcessChunk(buffer, SubSeq(body, pos + 1, pos + n))},
          stepRef \in {ProcessChunk(bufferRef, KeptBytes(body, mask, pos + 1, pos + n))} :
            /\ pos' = pos + n
            /\ buffer' = step.buffer
            /\ yielded' = yielded \o step.out
            /\ bufferRef' = stepRef.buffer
            /\ yieldedRef' = yieldedRef \o stepRef.out
            /\ ppc' = IF step.returned THEN "done" ELSE "reading"
    /\ UNCHANGED <<lineIds, openEnded>>
    /\ UNCHANGED relayVars
    /\ UNCHANGED <<widgetVars, cacheVars>>

\* seeded fault: what is left in the buffer at the end is handled as a line
EndOfStreamFlushes ==
    /\ ppc = "reading"
    /\ pos = Len(UpstreamBytes(lineIds, openEnded))
    /\ ppc' = "done"
    /\ yielded' = yielded \o ProcessLines(<<buffer>>).out
    /\ UNCHANGED <<lineIds, pos, buffer, bufferRef, yieldedRef, openEnded>>
    /\ UNCHANGED relayVars
    /\ UNCHANGED <<widgetVars, cacheVars>>

\* llm-service.ts 175, 199: the upstream stream ends
EndOfStream ==
    /\ ppc = "reading"
    /\ pos = Len(UpstreamBytes(lineIds, openEnded))
    /\ ppc' = "done"
    /\ UNCHANGED <<lineIds, pos, buffer, yielded, bufferRef, yieldedRef, openEnded>>
    /\ UNCHANGED relayVars
    /\ UNCHANGED <<widgetVars, cacheVars>>

NextParser ==
    \/ ReadChunk
    \/ EndOfStream

InitParserSpec == IdleRelay /\ InitParser /\ IdleWidget /\ IdleCache

SpecParser == InitParserSpec /\ [][NextParser]_vars

InitTailSpec == IdleRelay /\ InitTail /\ IdleWidget /\ IdleCache

SpecTail == InitTailSpec /\ [][NextParser]_vars


\* ======================= sdk/rollup.config.js, sdk/src/UniversalChatWidget.ts
\* Two implementations of the chat widget consume the /stream response:
\* class UniversalChatWidget of rollup.config.js ("rollup") and class
\* UniversalChatWidget of src/UniversalChatWidget.ts ("ts").
Widgets == {"rollup", "ts"}

MaxContentFrames == 2

\* ---- the wire.  A frame is `data: ` payload LF LF.  The payload "{" tag
\* text "}" stands for the JSON object of that type: tag "C" is
\* {"type":"content","content":text}, "F" is {"type":"completion",...},
\* "X" is {"type":"error","error":...}.
FrameTags == {"C", "F", "X"}

TagType(tag) ==
    CASE tag = "C" -> "content"
      [] tag = "F" -> "completion"
      [] tag = "X" -> "error"

\* JSON.parse on a frame payload: an object, or a SyntaxError
WireValid(data) ==
    /\ Len(data) >= 3
    /\ data[1] = "{"
    /\ data[Len(data)] = "}"
    /\ data[2] \in FrameTags
    /\ \A i \in 3..(Len(data) - 1) : data[i] \in RecordChars

WireParse(data) ==
    [type |-> TagType(data[2]), content |-> SubSeq(data, 3, Len(data) - 1)]

WFrameIds == {"content_a", "content_e", "completion", "error", "done"}

WFrameText(id) ==
    CASE id = "content_a"  -> Prefix \o <<"{", "C", "a", "}">>
      [] id = "content_e"  -> Prefix \o <<"{", "C", "E9", "}">>
      [] id = "completion" -> Prefix \o <<"{", "F", "}">>
      [] id = "error"      -> Prefix \o <<"{", "X", "}">>
      [] id = "done"       -> Prefix \o DoneToken

WBodyBytes(ids) ==
    Concat([i \in DOMAIN ids |-> Utf8Encode(WFrameText(ids[i]) \o <<NL, NL>>)])

\* response bodies: a run of content frames, then one of the endings
ContentRuns == UNION {[1..n -> {"content_a", "content_e"}] : n \in 0..MaxContentFrames}

Endings ==
    {<<>>,
     <<"done">>,
     <<"completion">>,
     <<"completion", "done">>,
     <<"error", "done">>,
     <<"completion", "content_a", "done">>}

WBodies == {run \o ending : run \in ContentRuns, ending \in Endings}

\* ---- decoding
\* seeded fault: every chunk decoded on its own, nothing held back
DecodeStreamPerChunk(held, bytes) == [text |-> toString(bytes), held |-> <<>>]

\* rollup.config.js 354: decoder.decode(value, { stream: true }) keeps an
\* incomplete trailing sequence back for the next call
DecodeStream(held, bytes) ==
    LET all == held \o bytes IN
    IF all # <<>> /\ Last(all) = "C3"
    THEN [text |-> toString(SubSeq(all, 1, Len(all) - 1)), held |-> <<"C3">>]
    ELSE [text |-> toString(all), held |-> <<>>]

\* UniversalChatWidget.ts 751: decoder.decode(value) decodes each chunk on its own
DecodeOneShot(bytes) == toString(bytes)

\* ---- messages
UserText == <<"h", "i">>
SorryRollup == <<"Sorry, I encountered an error. Please try again.">>
SorryTs ==
    <<"Sorry, I encountered an error while processing your message. Please try again.">>

Message(role, content) == [role |-> role, content |-> content]

\* seeded fault: the fragment replaces the text instead of being appended
AppendContentReplaces(old, fragment) == fragment

\* rollup.config.js 384, UniversalChatWidget.ts 763: `+=`
AppendContent(old, fragment) == old \o fragment

\* what one turn of the line loop works on
LineState(am, el, msgs, recv, dec, stop) ==
    [am |-> am, el |-> el, msgs |-> msgs, recv |-> recv, dec |-> dec, stop |-> stop]

\* rollup.config.js 361-406: one line.  The assistant message object is the
\* one pushed last to state.messages, so appending to it changes that entry.
RollupLine(st, line) ==
    IF ~StartsWith(line, Prefix) THEN st                          \* 361
    ELSE LET data == Trim(SubSeq(line, 7, Len(line))) IN          \* 362
         IF data = DoneToken THEN [st EXCEPT !.stop = TRUE]       \* 364-366: return
         ELSE IF ~WireValid(data) THEN st                         \* 369, 402-405
         ELSE LET chunk == WireParse(data)
                  dec == Append(st.dec, chunk)
              IN
              IF chunk.type = "content" /\ chunk.content # <<>>   \* 371
              THEN LET created == IF st.am = Null                 \* 373-381
                                  THEN Append(st.msgs, Message("assistant", <<>>))
                                  ELSE st.msgs
                       text == AppendContent(IF st.am = Null THEN <<>> ELSE st.am,
                                             chunk.content)       \* 384
                   IN [st EXCEPT !.am = text,
                                 !.el = text,                     \* 385: updateMessage
                                 !.msgs = [created EXCEPT ![Len(created)].content = text],
                                 !.dec = dec]
              ELSE IF chunk.type = "completion"                   \* 388-397
              THEN [st EXCEPT !.recv = IF st.am # Null THEN Append(st.recv, st.am)
                                       ELSE st.recv,
                              !.dec = dec]
              ELSE [st EXCEPT !.dec = dec]                        \* 399-405: thrown, caught

\* UniversalChatWidget.ts 754-791: one line
TsLine(st, line) ==
    IF ~StartsWith(line, Prefix) THEN st                          \* 755
    ELSE LET data == SubSeq(line, 7, Len(line)) IN                \* 756
         IF data = DoneToken THEN st                              \* 757: continue
         ELSE IF ~WireValid(data) THEN st                         \* 760, 788-790
         ELSE LET parsed == WireParse(data)
                  dec == Append(st.dec, parsed)
              IN
              IF parsed.type = "content" /\ parsed.content # <<>> \* 762
              THEN LET text == AppendContent(st.am, parsed.content) IN   \* 763
                   [st EXCEPT !.am = text,
                              !.el = text,                        \* 766-782
                              !.msgs = IF st.el = Null            \* 773: addMessageToUI
                                       THEN Append(st.msgs, Message("assistant", text))
                                       ELSE st.msgs,
                              !.dec = dec]
              ELSE IF parsed.type = "completion"                  \* 783-785: break
              THEN [st EXCEPT !.stop = TRUE, !.dec = dec]
              ELSE [st EXCEPT !.dec = dec]                        \* 786-790: thrown, caught

\* the `for (const line of lines)` loop, left early by return or break
RECURSIVE WidgetLines(_, _, _)
WidgetLines(w, st, lines) ==
    IF lines = <<>> \/ st.stop THEN st
    ELSE WidgetLines(w, IF w = "rollup" THEN RollupLine(st, Head(lines))
                        ELSE TsLine(st, Head(lines)),
                     Tail(lines))

\* rollup.config.js 354-358: decode, split, keep the incomplete last line
RollupChunk(buf, held, bytes) ==
    LET d == DecodeStream(held, bytes)
        lines == Split(buf \o d.text)
    IN [lines |-> SubSeq(lines, 1, Len(lines) - 1), buffer |-> Last(lines), held |-> d.held]

\* UniversalChatWidget.ts 751-752: decode, split, every piece is a line
TsChunk(bytes) ==
    [lines |-> Split(DecodeOneShot(bytes)), buffer |-> <<>>, held |-> <<>>]

\* rollup.config.js 329-335: the catch block of sendToAPI
\* seeded fault: the AbortError is rethrown like any other
SendToAPICatchRethrows(name) == "throw"

SendToAPICatch(name) == IF name = "AbortError" THEN "return" ELSE "throw"

\* the catch block of sendMessage: rollup.config.js 266-280,
\* UniversalChatWidget.ts 722-730
SendMessageCatch(w, msgs) ==
    Append(msgs, Message("assistant", IF w = "rollup" THEN SorryRollup ELSE SorryTs))

InitWidget ==
    /\ widget \in Widgets
    /\ wpc = "idle"
    /\ wbody \in WBodies
    /\ wpos = 0
    /\ wbuffer = <<>>
    /\ wpending = <<>>
    /\ assistantMessage = Null
    /\ messageElement = Null
    /\ wmessages = <<>>
    /\ received = <<>>
    /\ errors = 0
    /\ decoded = <<>>
    /\ aborted = FALSE
    /\ entry = "none"
    /\ posted = <<>>
    /\ requests = <<>>
    /\ abortController = 0
    /\ unmounted = FALSE

\* a turn up to its first await. rollup.config.js 244-263, 288-318: the user
\* message is added, state.messages copied into the request, the
\* AbortController made, fetch started. UniversalChatWidget.ts: either
\* handleSendMessage 548-567 stores the user message (addMessageToUI 609) and
\* calls sendMessage, or sendMessage is called directly; sendMessage 685-713
\* posts this.messages followed by the user message and stores nothing.
SendMessage ==
    /\ wpc = "idle"
    /\ wpc' = "fetch"
    /\ entry' \in (IF widget = "rollup" THEN {"api"} ELSE {"input", "api"})
    /\ wmessages' = IF widget = "rollup" \/ entry' = "input"
                    THEN Append(wmessages, Message("user", UserText))
                    ELSE wmessages
    /\ posted' = IF widget = "rollup"
                 THEN wmessages'
                 ELSE Append(wmessages', Message("user", UserText))
    /\ UNCHANGED <<widget, wbody, wpos, wbuffer, wpending, assistantMessage,
                   messageElement, received, errors, decoded, aborted>>
    /\ UNCHANGED <<requests, abortController, unmounted>>
    /\ UNCHANGED <<relayVars, parserVars, cacheVars>>

\* a rejection travelling out of sendToAPI / handleStreamingResponse
Rejected(name) ==
    IF widget = "rollup" /\ SendToAPICatch(name) = "return"
    THEN UNCHANGED <<wmessages, errors>>
    ELSE /\ wmessages' = SendMessageCatch(widget, wmessages)
         /\ errors' = IF widget = "rollup" THEN errors + 1 ELSE errors

\* fetch settles: rollup.config.js 306-326, UniversalChatWidget.ts 703-720
FetchSettles ==
    /\ wpc = "fetch"
    /\ ~aborted
    /\ \E outcome \in {"ok", "status500", "TypeError"} :
         IF outcome = "ok"
         THEN /\ wpc' = "reading"
              /\ assistantMessage' = IF widget = "rollup" THEN Null ELSE <<>>
              /\ UNCHANGED <<wmessages, errors>>
         ELSE /\ wpc' = "done"
              /\ Rejected(IF outcome = "TypeError" THEN "TypeError" ELSE "Error")
              /\ UNCHANGED assistantMessage
    /\ UNCHANGED <<widget, wbody, wpos, wbuffer, wpending,
                   messageElement, received, decoded, aborted>>
    /\ UNCHANGED <<entry, posted, requests, abortController, unmounted>>
    /\ UNCHANGED <<relayVars, parserVars, cacheVars>>

\* reader.read() resolves with the next n bytes and the loop body runs:
\* rollup.config.js 350-408, UniversalChatWidget.ts 747-793
\* (the singleton sets only name intermediate values)
WidgetReadChunk ==
    /\ wpc = "reading"
    /\ ~aborted
    /\ \E body \in {WBodyBytes(wbody)} :
       \E n \in 1..(Len(body) - wpos) :
       \E cut \in {IF widget = "rollup"
                   THEN RollupChunk(wbuffer, wpending, SubSeq(body, wpos + 1, wpos + n))
                   ELSE TsChunk(SubSeq(body, wpos + 1, wpos + n))} :
       \E st \in {WidgetLines(widget,
                      LineState(assistantMessage, messageElement, wmessages,
                                received, decoded, FALSE),
                      cut.lines)} :
            /\ wpos' = wpos + n
            /\ wbuffer' = cut.buffer
            /\ wpending' = cut.held
            /\ assistantMessage' = st.am
            /\ messageElement' = st.el
            /\ wmessages' = st.msgs
            /\ received' = st.recv
            /\ decoded' = st.dec
            /\ wpc' = IF widget = "rollup" /\ st.stop THEN "done" ELSE "reading"
    /\ UNCHANGED <<widget, wbody, errors, aborted>>
    /\ UNCHANGED <<entry, posted, requests, abortController, unmounted>>
    /\ UNCHANGED <<relayVars, parserVars, cacheVars>>

\* reader.read() resolves with done: rollup.config.js 350-352, 409-411;
\* UniversalChatWidget.ts 748-749, 794-796
WidgetEndOfStream ==
    /\ wpc = "reading"
    /\ ~aborted
    /\ wpos = Len(WBodyBytes(wbody))
    /\ wpc' = "done"
    /\ UNCHANGED <<widget, wbody, wpos, wbuffer, wpending, assistantMessage,
                   messageElement, wmessages, received, errors, decoded, aborted>>
    /\ UNCHANGED <<entry, posted, requests, abortController, unmounted>>
    /\ UNCHANGED <<relayVars, parserVars, cacheVars>>

\* reader.read() rejects (the connection breaks)
ReadFails ==
    /\ wpc = "reading"
    /\ ~aborted
    /\ wpc' = "done"
    /\ Rejected("TypeError")
    /\ UNCHANGED <<widget, wbody, wpos, wbuffer, wpending, assistantMessage,
                   messageElement, received, decoded, aborted>>
    /\ UNCHANGED <<entry, posted, requests, abortController, unmounted>>
    /\ UNCHANGED <<relayVars, parserVars, cacheVars>>

\* rollup.config.js 168-199: unmount() while the request is in flight
Unmount ==
    /\ widget = "rollup"
    /\ wpc \in {"fetch", "reading"}
    /\ ~aborted
    /\ aborted' = TRUE                                            \* 179-181
    /\ UNCHANGED <<widget, wpc, wbody, wpos, wbuffer, wpending, assistantMessage,
                   messageElement, wmessages, received, errors, decoded>>
    /\ UNCHANGED <<entry, posted, requests, abortController, unmounted>>
    /\ UNCHANGED <<relayVars, parserVars, cacheVars>>

\* the pending fetch or read rejects with the AbortError:
\* rollup.config.js 409-411, 329-335, 282-285
AbortRejects ==
    /\ aborted
    /\ wpc \in {"fetch", "reading"}
    /\ wpc' = "done"
    /\ Rejected("AbortError")
    /\ UNCHANGED <<widget, wbody, wpos, wbuffer, wpending, assistantMessage,
                   messageElement, received, decoded, aborted>>
    /\ UNCHANGED <<entry, posted, requests, abortController, unmounted>>
    /\ UNCHANGED <<relayVars, parserVars, cacheVars>>

NextWidget ==
    \/ SendMessage
    \/ FetchSettles
    \/ WidgetReadChunk
    \/ WidgetEndOfStream
    \/ ReadFails
    \/ Unmount
    \/ AbortRejects

InitWidgetSpec == IdleRelay /\ IdleParser /\ InitWidget /\ IdleCache

SpecWidget == InitWidgetSpec /\ [][NextWidget]_vars

\* ---- the rollup widget with two sendMessage calls, the second made while
\* the first is under way or over.  Each call has its own response stream,
\* its own `assistantMessage` and its own AbortController signal; the widget
\* has one state.messages and one this.abortController.  reader.read() hands
\* over one whole frame at a time.
Calls == {1, 2}

OverlapBodies ==
    {run \o <<"completion", "done">> : run \in ContentRuns}
        \cup {<<"error", "done">>, <<"content_a", "completion">>}

\* one call before sendMessage runs: idx is the place of its assistant
\* message in state.messages, 0 before it is created
Request(body) ==
    [pc |-> "idle", body |-> body, pos |-> 0, am |-> Null, idx |-> 0, signal |-> FALSE]

InitOverlap ==
    /\ widget = "rollup"
    /\ wpc = "idle"
    /\ wbody = <<>>
    /\ wpos = 0
    /\ wbuffer = <<>>
    /\ wpending = <<>>
    /\ assistantMessage = Null
    /\ messageElement = Null
    /\ wmessages = <<>>
    /\ received = <<>>
    /\ errors = 0
    /\ decoded = <<>>
    /\ aborted = FALSE
    /\ entry = "api"
    /\ posted = <<>>
    /\ requests \in {<<Request(b1), Request(b2)>> : b1 \in OverlapBodies, b2 \in OverlapBodies}
    /\ abortController = 0
    /\ unmounted = FALSE

OverlapUnchanged ==
    /\ UNCHANGED <<widget, wpc, wbody, wpos, wbuffer, wpending, assistantMessage,
                   messageElement, decoded, aborted, entry>>
    /\ UNCHANGED <<relayVars, parserVars, cacheVars>>

\* rollup.config.js 244-263, 288-318: sendMessage up to the await of fetch.
\* Nothing keeps a second call from starting while the first is under way;
\* line 305 replaces this.abortController.
SendMessageCall(r) ==
    /\ requests[r].pc = "idle"
    /\ r = 2 => requests[1].pc # "idle"
    /\ ~unmounted
    /\ wmessages' = Append(wmessages, Message("user", UserText))  \* 255
    /\ posted' = wmessages'                                       \* 292-299
    /\ abortController' = r                                       \* 305
    /\ requests' = [requests EXCEPT ![r].pc = "fetch"]
    /\ UNCHANGED <<received, errors, unmounted>>
    /\ OverlapUnchanged

\* rollup.config.js 306-326, 329-335, 266-280: the call's fetch settles
FetchSettlesCall(r) ==
    /\ requests[r].pc = "fetch"
    /\ ~requests[r].signal
    /\ \E outcome \in {"ok", "status500"} :
         IF outcome = "ok"
         THEN /\ requests' = [requests EXCEPT ![r].pc = "reading"]
              /\ UNCHANGED <<wmessages, errors>>
         ELSE /\ requests' = [requests EXCEPT ![r].pc = "done"]
              /\ wmessages' = SendMessageCatch("rollup", wmessages)
              /\ errors' = errors + 1
    /\ UNCHANGED <<received, posted, abortController, unmounted>>
    /\ OverlapUnchanged

\* rollup.config.js 350-408: the call's reader hands over its next frame and
\* the loop body runs on it.  The line loop works on the call's own
\* assistant message, which is an entry of the shared state.messages.
ReadFrameCall(r) ==
    /\ requests[r].pc = "reading"
    /\ ~requests[r].signal
    /\ requests[r].pos < Len(requests[r].body)
    /\ \E q \in {requests[r]} :
       \E cut \in {RollupChunk(<<>>, <<>>,
                        Utf8Encode(WFrameText(q.body[q.pos + 1]) \o <<NL, NL>>))} :
       \E st \in {WidgetLines("rollup",
                      LineState(q.am, Null,
                                IF q.idx = 0 THEN <<>> ELSE <<wmessages[q.idx]>>,
                                received, <<>>, FALSE),
                      cut.lines)} :
            /\ wmessages' = IF st.msgs = <<>> THEN wmessages
                            ELSE IF q.idx = 0 THEN Append(wmessages, st.msgs[1])
                            ELSE [wmessages EXCEPT ![q.idx] = st.msgs[1]]
            /\ received' = st.recv
            /\ requests' = [requests EXCEPT ![r] =
                    [q EXCEPT !.pos = q.pos + 1,
                              !.am = st.am,
                              !.idx = IF q.idx = 0 /\ st.msgs # <<>>
                                      THEN Len(wmessages) + 1 ELSE q.idx,
                              !.pc = IF st.stop THEN "done" ELSE "reading"]]
    /\ UNCHANGED <<errors, posted, abortController, unmounted>>
    /\ OverlapUnchanged

\* rollup.config.js 350-352, 409-411: the call's reader reports done
EndOfStreamCall(r) ==
    /\ requests[r].pc = "reading"
    /\ ~requests[r].signal
    /\ requests[r].pos = Len(requests[r].body)
    /\ requests' = [requests EXCEPT ![r].pc = "done"]
    /\ UNCHANGED <<wmessages, received, errors, posted, abortController, unmounted>>
    /\ OverlapUnchanged

\* rollup.config.js 168-199: unmount() aborts the controller the widget holds
UnmountWidget ==
    /\ ~unmounted
    /\ unmounted' = TRUE
    /\ requests' = IF abortController = 0 THEN requests                \* 179
                   ELSE [requests EXCEPT ![abortController].signal = TRUE] \* 180
    /\ UNCHANGED <<wmessages, received, errors, posted, abortController>>
    /\ OverlapUnchanged

\* rollup.config.js 329-335, 282-285: the call's pending fetch or read rejects
\* with the AbortError, which sendToAPI swallows
AbortRejectsCall(r) ==
    /\ requests[r].signal
    /\ requests[r].pc \in {"fetch", "reading"}
    /\ SendToAPICatch("AbortError") = "return"
    /\ requests' = [requests EXCEPT ![r].pc = "done"]
    /\ UNCHANGED <<wmessages, received, errors, posted, abortController, unmounted>>
    /\ OverlapUnchanged

NextOverlap ==
    \/ \E r \in Calls : SendMessageCall(r)
    \/ \E r \in Calls : FetchSettlesCall(r)
    \/ \E r \in Calls : ReadFrameCall(r)
    \/ \E r \in Calls : EndOfStreamCall(r)
    \/ UnmountWidget
    \/ \E r \in Calls : AbortRejectsCall(r)

InitOverlapSpec == IdleRelay /\ IdleParser /\ InitOverlap /\ IdleCache

SpecOverlap == InitOverlapSpec /\ [][NextOverlap]_vars


\* ===================================== properties of createStreamIterator
\* createStreamIterator's result when the whole body arrives as one chunk
OneChunk(ids) == ProcessChunk(<<>>, BodyBytes(ids)).out

\* C4 (as claimed): what the relay's for-await gets from the value that
\* generateStreamingResponse returns, parseStreamResponse(stream), is the
\* record sequence that createStreamIterator(stream) yields.
C4_RelayGetsTheRecords ==
    ppc = "done" => ForAwait(parseStreamResponse(yielded)) = yielded

\* C6 (as claimed): for a body of well-formed lines, however its bytes are cut
\* into chunks, the records yielded are those of the one-chunk case.
C6_ChunkingInvariant ==
    (ppc = "done" /\ \A i \in DOMAIN lineIds : lineIds[i] \notin SkippedIds)
        => yielded = OneChunk(lineIds)

\* C7: lines the iterator must skip (no `data: ` prefix, or a payload that is
\* not JSON) leave the yielded records exactly those of the same chunks with
\* the skipped lines taken out, and never end the iteration: it ends only at
\* the end of the body or at a [DONE] line.
C7_SkippedLinesChangeNothing ==
    /\ yielded = yieldedRef
    /\ ppc = "done" =>
          \/ pos = Len(BodyBytes(lineIds))
          \/ \E i \in DOMAIN lineIds : lineIds[i] = "done"

\* C7 witness: a malformed line between two records, both records yielded
C7_Witness ==
    /\ ppc = "done"
    /\ lineIds = <<"rec_a", "bad", "rec_e">>
    /\ Len(yielded) = 2
    /\ yielded[1] = <<"a">>

\* ================================================= properties of /stream
Types == [i \in DOMAIN written |-> written[i].data.type]

IndicesOf(types) == {i \in DOMAIN written : Types[i] \in types}

Valid == validateChatRequest(req.messages)

TerminalTypes == {"completion", "error"}
ToolTypes == {"tool_result", "tool_error"}

\* C1: for a request that passed validation the handler writes exactly one
\* [DONE] sentinel, nothing after it, and ends the response: never a second
\* sentinel, never a frame after the sentinel, and the handler cannot stop
\* before its finally block has run.
C1_OneSentinelLast ==
    /\ Cardinality(IndicesOf({"[DONE]"})) <= 1
    /\ \A i \in IndicesOf({"[DONE]"}) : i = Len(written) /\ ended
    /\ (Valid /\ pc = "closed") =>
          /\ Cardinality(IndicesOf({"[DONE]"})) = 1
          /\ ended
    /\ (Valid /\ pc # "closed") => (~ended /\ ENABLED Next)

\* C1 witness: an exception thrown while streaming, after a content frame
C1_Witness ==
    /\ pc = "closed"
    /\ thrown = "aborted"
    /\ IndicesOf({"content"}) # {}
    /\ Types[Len(written)] = "[DONE]"

\* C2 (as claimed): a finished turn holds exactly one terminal frame
\* (completion or error) before the sentinel.
C2_ExactlyOneTerminal ==
    (Valid /\ pc = "closed") => Cardinality(IndicesOf(TerminalTypes)) = 1

OpenFailures ==
    {"LLM service not available", "Provider groq not available",
     "Failed to generate response"}
    \cup {a.message : a \in {x \in AxiosOutcomes : ~x.ok /\ x.isError}}

\* C3: when the LLM service is missing or opening the upstream request fails,
\* the response is exactly one error frame carrying the failure message and
\* then the sentinel; nothing else is written and no lookup is made.
C3_OpenFailure ==
    (thrown \in OpenFailures) =>
        /\ lookups = <<>>
        /\ delivered = <<>>
        /\ ~req.llm => thrown = "LLM service not available"
        /\ (req.llm /\ ~req.apiKey) => thrown = "Provider groq not available"
        /\ pc = "catch" => written = <<>>
        /\ pc = "finally" =>
              /\ Len(written) = 1
              /\ written[1].data = [type |-> "error", error |-> thrown]
        /\ pc = "closed" =>
              /\ Len(written) = 2
              /\ written[1].data = [type |-> "error", error |-> thrown]
              /\ Types[2] = "[DONE]"
              /\ ended
        /\ pc \in {"catch", "finally", "closed"}

\* C3 witness: a refused upstream connection, answered and closed
C3_Witness ==
    /\ pc = "closed"
    /\ thrown = "connect ECONNREFUSED"
    /\ Len(written) = 2

\* the content fragments of the chunks whose loop body has run
Processed == IF pc = "tools" THEN SubSeq(delivered, 1, Len(delivered) - 1) ELSE delivered

RECURSIVE Fragments(_)
Fragments(chunks) ==
    IF chunks = <<>> THEN <<>>
    ELSE LET c == Head(chunks) IN
         (IF c.choice /\ c.delta /\ c.content # Undefined /\ c.content # "" THEN <<c.content>> ELSE <<>>)
         \o Fragments(Tail(chunks))

ContentFramesWritten ==
    LET idx == IndicesOf({"content"})
        F[i \in 0..Len(written)] ==
            IF i = 0 THEN <<>>
            ELSE IF i \in idx THEN Append(F[i - 1], written[i].data.content)
            ELSE F[i - 1]
    IN F[Len(written)]

\* C5: the content frames written are, in order and one for one, the
\* (non-empty) content fragments of the deltas processed so far.
C5_ContentInOrder == ContentFramesWritten = Fragments(Processed)

\* C5 witness: two different fragments forwarded, then the turn completed
C5_Witness ==
    /\ pc = "closed"
    /\ ContentFramesWritten = <<"a", "b">>
    /\ IndicesOf({"completion"}) # {}

\* every argument fragment delivered for a call id, concatenated in arrival order
RECURSIVE ArgsOf(_, _)
ArgsOf(id, calls) ==
    IF calls = <<>> THEN <<>>
    ELSE (IF Head(calls).id = id THEN Head(calls).arguments ELSE <<>>)
         \o ArgsOf(id, Tail(calls))

RECURSIVE CallsOf(_)
CallsOf(chunks) ==
    IF chunks = <<>> THEN <<>>
    ELSE (IF Head(chunks).choice /\ Head(chunks).delta
          THEN Head(chunks).tool_calls ELSE <<>>)
         \o CallsOf(Tail(chunks))

KnownIds(chunks) ==
    {CallsOf(chunks)[i].id : i \in {j \in DOMAIN CallsOf(chunks) :
                                        CallsOf(chunks)[j].name = KnownTool}}

\* a known tool's id whose fragments concatenate to valid arguments
CompleteIds(chunks) ==
    {id \in KnownIds(chunks) : JSONValid(ArgsOf(id, CallsOf(chunks)))}

LookupsFor(id) == {i \in DOMAIN lookups : lookups[i].id = id}
ToolFramesFor(id) ==
    {i \in IndicesOf(ToolTypes) : written[i].data.tool_call_id = id}

\* C8 (as claimed): at the end of a turn every known tool call whose fragments
\* concatenate to valid arguments had exactly one lookup and exactly one
\* tool_result or tool_error frame.
C8_OncePerCallId ==
    (pc = "closed" /\ thrown = "") =>
        \A id \in CompleteIds(delivered) :
            /\ Cardinality(LookupsFor(id)) = 1
            /\ Cardinality(ToolFramesFor(id)) = 1

\* C9 (as claimed): every lookup is made with the parse of the concatenation
\* of all argument fragments delivered for its call id (whenever that
\* concatenation parses).
C9_LookupArgsAreConcatenation ==
    (pc = "closed" /\ thrown = "") =>
        \A i \in DOMAIN lookups :
            LET all == ArgsOf(lookups[i].id, CallsOf(delivered))
                text == IF all = <<>> THEN <<"{", "}">> ELSE all    \* '' reads as '{}'
            IN JSONValid(text) => lookups[i].args = LookupArgs(JSONParse(text))

\* C10: no tool_result or tool_error frame follows a completion frame, and a
\* completion frame is written only once every tool call of its delta has
\* been handled.
C10_ToolFramesBeforeCompletion ==
    /\ \A i \in IndicesOf({"completion"}) : \A j \in IndicesOf(ToolTypes) : j < i
    /\ \A i \in IndicesOf({"completion"}) :
          /\ tcIdx > Len(cur.tool_calls)
          /\ Cardinality(IndicesOf({"completion"})) = 1

\* C10 witness: a tool call and the finish_reason in one delta
C10_Witness ==
    /\ pc = "closed"
    /\ Len(delivered) = 1
    /\ delivered[1].tool_calls # <<>>
    /\ delivered[1].finish_reason = "stop"
    /\ Len(written) = 3
    /\ Types[1] \in ToolTypes
    /\ Types[2] = "completion"

\* the tool calls whose loop turn (chat.ts 76-110) has run, in order
HandledCalls ==
    CallsOf(Processed)
    \o (IF pc = "tools" THEN SubSeq(cur.tool_calls, 1, tcIdx - 1) ELSE <<>>)

ArgsText(call) == IF call.arguments = <<>> THEN <<"{", "}">> ELSE call.arguments

\* the chunks whose loop body has run to its end and that carry a finish_reason
Finished ==
    {i \in DOMAIN Processed :
        /\ Processed[i].choice
        /\ Processed[i].delta
        /\ Processed[i].finish_reason # Undefined}

\* C11: a tool call whose name is not query_contentstack_content causes no
\* lookup and no tool_result or tool_error frame (lookups and tool frames are
\* exactly those of the known-named calls handled so far, carrying their ids),
\* and the delta that carries it still gets its content handled and, with a
\* finish_reason, its completion frame in the same loop turn.
C11_UnknownToolIgnored ==
    \A done \in {Processed}, calls \in {HandledCalls}, frames \in {IndicesOf(ToolTypes)} :
    \A known \in {{i \in DOMAIN calls : calls[i].name = KnownTool}} :
    \A parsed \in {{i \in known : JSONValid(ArgsText(calls[i]))}} :
        /\ Cardinality(frames) = Cardinality(known)
        /\ Len(lookups) = Cardinality(parsed)
        /\ \A i \in frames :
              written[i].data.tool_call_id \in {calls[k].id : k \in known}
        /\ \A i \in DOMAIN lookups : lookups[i].id \in {calls[k].id : k \in parsed}
        /\ \A i \in DOMAIN done :
              (/\ done[i].choice
               /\ done[i].delta
               /\ done[i].finish_reason # Undefined
               /\ \E k \in DOMAIN done[i].tool_calls :
                      done[i].tool_calls[k].name # KnownTool)
              => /\ pc \in {"finally", "closed"}
                 /\ thrown = ""
                 /\ i = Len(done)
                 /\ Cardinality(IndicesOf({"completion"})) = 1

\* C11 witness: one delta with an unknown tool call and finish_reason:
\* the response is the completion frame and the sentinel, no lookup
C11_Witness ==
    /\ pc = "closed"
    /\ Len(delivered) = 1
    /\ delivered[1].tool_calls = <<ToolCall("t2", "other_tool", ArgsFull)>>
    /\ delivered[1].finish_reason = "stop"
    /\ lookups = <<>>
    /\ Types = <<"completion", "[DONE]">>

\* the tool frames the handled calls must have produced: a tool_error for
\* arguments that do not parse, else the frame of the next lookup's outcome
RECURSIVE ExpectedToolFrames(_, _)
ExpectedToolFrames(calls, lks) ==
    IF calls = <<>> THEN <<>>
    ELSE LET c == Head(calls) IN
         IF c.name # KnownTool THEN ExpectedToolFrames(Tail(calls), lks)
         ELSE IF ~JSONValid(ArgsText(c))
         THEN <<[type |-> "tool_error", id |-> c.id]>> \o ExpectedToolFrames(Tail(calls), lks)
         ELSE IF lks = <<>> THEN <<[type |-> "missing", id |-> c.id]>>
         ELSE <<[type |-> IF Head(lks).ok THEN "tool_result" ELSE "tool_error", id |-> c.id]>>
              \o ExpectedToolFrames(Tail(calls), Tail(lks))

ToolFramesWritten ==
    LET F[i \in 0..Len(written)] ==
            IF i = 0 THEN <<>>
            ELSE IF written[i].data.type \in ToolTypes
                 THEN Append(F[i - 1],
                          [type |-> written[i].data.type, id |-> written[i].data.tool_call_id])
                 ELSE F[i - 1]
    IN F[Len(written)]

\* C12: a lookup that throws, or arguments that fail to parse, give a
\* tool_error frame carrying the call id and never an error frame (an error
\* frame exists only when an exception reached the outer catch, and a tool
\* failure never does); the content frames are still those of every delta
\* processed, the loop goes on, and a finish_reason still gets its completion.
C12_ToolFailureIsToolError ==
    /\ ToolFramesWritten = ExpectedToolFrames(HandledCalls, lookups)
    /\ \A types \in {{written[i].data.type : i \in DOMAIN written}} :
          /\ "error" \in types => thrown # ""
          /\ thrown # "" => pc \in {"catch", "finally", "closed"}
          /\ ("tool_error" \in types /\ thrown = "") =>
                /\ ContentFramesWritten = Fragments(Processed)
                /\ pc \in {"loop", "tools", "finally", "closed"}
                /\ Finished # {} => Cardinality(IndicesOf({"completion"})) = 1
                /\ pc = "closed" => written[Len(written)].data.type = "[DONE]"

\* C12 witness: a lookup throws on the first delta; the second delta's content
\* and completion are still written
C12_Witness ==
    /\ pc = "closed"
    /\ Len(lookups) = 1
    /\ ~lookups[1].ok
    /\ Types = <<"tool_error", "content", "completion", "[DONE]">>
    /\ written[1].data.tool_call_id = "t1"

\* the `messages` values the claim counts as invalid: not a list, an empty
\* list, an entry with an unrecognized role or with empty content
InvalidMessages(messages) ==
    \/ messages = NotArray
    \/ messages = <<>>
    \/ \E i \in DOMAIN messages : messages[i].role \notin Roles \/ messages[i].content = ""

\* C13 (as claimed): for a request with invalid `messages` the handler never
\* takes the step that calls generateStreamingResponse.
C13_InvalidNeverOpens ==
    [][InvalidMessages(req.messages) => ~OpenUpstream]_vars

\* C14 (as claimed): every frame written ends with two line-feed characters.
C14_FramesEndWithTwoLineFeeds ==
    \A i \in DOMAIN written : written[i].end = <<NL, NL>>

\* the content fragments of the processed deltas, the empty string included
RECURSIVE FragmentsWithEmpty(_)
FragmentsWithEmpty(chunks) ==
    IF chunks = <<>> THEN <<>>
    ELSE LET c == Head(chunks) IN
         (IF c.choice /\ c.delta /\ c.content # Undefined THEN <<c.content>> ELSE <<>>)
         \o FragmentsWithEmpty(Tail(chunks))

\* C15 (as claimed): the content frames written are, in number and order, the
\* content fragments of the processed deltas, an empty-string fragment
\* giving a content frame with empty content.
C15_EmptyContentForwarded ==
    thrown = "" => ContentFramesWritten = FragmentsWithEmpty(Processed)

\* C16 (as claimed): once the caller is gone the handler pulls no further
\* chunk from the upstream iterable, starts no further lookup and writes no
\* further frame.
C16_StopsWhenCallerGone ==
    [][clientGone =>
          /\ delivered' = delivered
          /\ lookups' = lookups
          /\ written' = written]_vars

\* ================================================ properties of the widgets
DecodedTypes == [i \in DOMAIN decoded |-> decoded[i].type]

\* the content fragments among the first k entries of a list of parsed frames
RECURSIVE ContentOf(_)
ContentOf(frames) ==
    IF frames = <<>> THEN <<>>
    ELSE (IF Head(frames).type = "content" THEN Head(frames).content ELSE <<>>)
         \o ContentOf(Tail(frames))

\* what the frames of a body parse to
ParsedBody(ids) ==
    [i \in DOMAIN ids |-> WireParse(SubSeq(WFrameText(ids[i]), 7, Len(WFrameText(ids[i]))))]

AssistantMessages == {i \in DOMAIN wmessages : wmessages[i].role = "assistant"}

\* a response of n >= 1 non-empty content frames, one completion, [DONE]
WellFormedTurn ==
    \E run \in ContentRuns \ {<<>>} : wbody = run \o <<"completion", "done">>

\* C17: the rollup.config.js consumer, reading a response of n >= 1 non-empty
\* content frames c1..cn, a completion frame and [DONE], and neither aborted
\* nor cut by a failing read: the frames are decoded in order, whatever the
\* chunking; exactly one assistant message exists from the first content
\* frame on; its content (and its element's text) is at every moment the
\* concatenation of the fragments decoded so far; at the end it is c1+...+cn;
\* onMessageReceived fires exactly once, at the completion frame, with that text.
C17_OneMessageGrowsByAppend ==
    (widget = "rollup" /\ WellFormedTurn /\ ~aborted /\ errors = 0) =>
        LET frames == ParsedBody(SubSeq(wbody, 1, Len(wbody) - 1))
            full == ContentOf(frames)
            sofar == ContentOf(decoded)
        IN
        /\ Len(decoded) <= Len(frames)
        /\ decoded = SubSeq(frames, 1, Len(decoded))
        /\ IF sofar = <<>>
           THEN /\ AssistantMessages = {}
                /\ assistantMessage = Null
                /\ messageElement = Null
           ELSE /\ Cardinality(AssistantMessages) = 1
                /\ \A i \in AssistantMessages : wmessages[i].content = sofar
                /\ assistantMessage = sofar
                /\ messageElement = sofar
        /\ received = IF "completion" \in {DecodedTypes[i] : i \in DOMAIN decoded}
                      THEN <<full>> ELSE <<>>
        /\ wpc = "done" =>
              /\ decoded = frames
              /\ received = <<full>>
              /\ wmessages = <<Message("user", UserText), Message("assistant", full)>>

\* C17 witness: two fragments, the second a two-byte character, read in more
\* than one chunk; the turn is over
C17_Witness ==
    /\ widget = "rollup"
    /\ wpc = "done"
    /\ wbody = <<"content_a", "content_e", "completion", "done">>
    /\ wpos < Len(WBodyBytes(wbody))
    /\ received = << <<"a", "E9">> >>
    /\ wmessages[2] = Message("assistant", <<"a", "E9">>)
    /\ errors = 0

\* the text the message had when the first completion frame was decoded
TextAtCompletion ==
    LET first == CHOOSE i \in DOMAIN decoded :
                     /\ decoded[i].type = "completion"
                     /\ \A j \in 1..(i - 1) : decoded[j].type # "completion"
    IN ContentOf(SubSeq(decoded, 1, first))

\* C18 (as claimed): in both widgets, once a completion frame has been
\* decoded the message text is the text it had at that moment: a content
\* frame decoded afterwards does not change it.
C18_NoAppendAfterCompletion ==
    (\E i \in DOMAIN decoded : decoded[i].type = "completion") =>
        (IF assistantMessage = Null THEN <<>> ELSE assistantMessage) = TextAtCompletion

\* C19 (as claimed): in both widgets, when an error frame has been decoded
\* the turn ends on the failure path: sendMessage has added its error message
\* and (rollup) called onError, and no completion was reported.
C19_ErrorFrameFailsTheTurn ==
    (wpc = "done" /\ ~aborted /\ \E i \in DOMAIN decoded : decoded[i].type = "error") =>
        /\ \E i \in AssistantMessages : wmessages[i].content \in {SorryRollup, SorryTs}
        /\ widget = "rollup" => errors >= 1

\* C20: rollup.config.js, one request in flight: from the moment unmount()
\* has called abort() (during the fetch or during a pending read) no assistant
\* message is created or appended to, onMessageReceived does not fire, no
\* error message is added and onError is not called; the request just ends.
C20_AbortIsSilent ==
    [][aborted =>
          /\ wmessages' = wmessages
          /\ assistantMessage' = assistantMessage
          /\ messageElement' = messageElement
          /\ received' = received
          /\ errors' = errors
          /\ decoded' = decoded
          /\ wpc' = "done"]_vars

\* C20 witness: unmounted in the middle of the stream, after the first
\* fragment was shown; the request has ended without an error
C20_Witness ==
    /\ aborted
    /\ wpc = "done"
    /\ assistantMessage = <<"a">>
    /\ wpos < Len(WBodyBytes(wbody))
    /\ wmessages = <<Message("user", UserText), Message("assistant", <<"a">>)>>
    /\ received = <<>>
    /\ errors = 0

\* what a consumer makes of a whole body handed over as one chunk
OneChunkWidget(w, ids, msgs) ==
    WidgetLines(w,
        LineState(IF w = "rollup" THEN Null ELSE <<>>, Null, msgs, <<>>, <<>>, FALSE),
        (IF w = "rollup" THEN RollupChunk(<<>>, <<>>, WBodyBytes(ids))
         ELSE TsChunk(WBodyBytes(ids))).lines)

\* the turn has read its response to the end (no abort, no failed fetch or read)
ReadToEnd ==
    /\ wpc = "done"
    /\ ~aborted
    /\ errors = 0
    /\ \A i \in DOMAIN wmessages : wmessages[i].content \notin {SorryRollup, SorryTs}

\* C21: the rollup.config.js consumer, for every body and every way of cutting
\* its bytes into read chunks (inside a frame's JSON, at a newline, inside a
\* two-byte character): the frames decoded so far are always a prefix of the
\* frames of the one-chunk read and the text is always the concatenation of
\* their fragments; read to the end, the decoded frames, the assistant text,
\* the message list and the onMessageReceived calls are those of the
\* one-chunk read.
C21_RollupChunkingInvariant ==
    (widget = "rollup" /\ wpc \in {"reading", "done"}) =>
        \A one \in {OneChunkWidget("rollup", wbody, <<Message("user", UserText)>>)} :
            /\ Len(decoded) <= Len(one.dec)
            /\ decoded = SubSeq(one.dec, 1, Len(decoded))
            /\ (IF assistantMessage = Null THEN <<>> ELSE assistantMessage)
                   = ContentOf(decoded)
            /\ ReadToEnd =>
                  /\ decoded = one.dec
                  /\ assistantMessage = one.am
                  /\ messageElement = one.el
                  /\ wmessages = one.msgs
                  /\ received = one.recv

\* C21 witness: a read has ended between the two bytes of a character and
\* inside a frame's JSON, after an earlier frame was decoded
C21_Witness ==
    /\ widget = "rollup"
    /\ wpc = "reading"
    /\ wpending = <<"C3">>
    /\ wbuffer = Prefix \o <<"{", "C">>
    /\ decoded # <<>>

\* C22 (as claimed): the UniversalChatWidget.ts consumer, read to the end:
\* the decoded frames and the displayed text are those of the one-chunk read,
\* however the bytes were cut.
C22_TsChunkingInvariant ==
    (widget = "ts" /\ ReadToEnd) =>
        \A one \in {OneChunkWidget("ts", wbody, <<>>)} :
            /\ decoded = one.dec
            /\ messageElement = one.el

\* C23 (as claimed): in the UniversalChatWidget.ts widget the assistant
\* message held in this.messages has the text that is displayed.
C23_TsStoredContentIsDisplayed ==
    (widget = "ts" /\ messageElement # Null) =>
        \E i \in AssistantMessages : wmessages[i].content = messageElement

\* C24 (as claimed): every finished response, the one to a request that
\* failed validation included, has the [DONE] sentinel as its last frame.
C24_ValidationFailureEndsWithDone ==
    pc = "closed" =>
        /\ written # <<>>
        /\ written[Len(written)].data.type = "[DONE]"

\* C26: after a completion frame or an error frame the only frame written is
\* the [DONE] sentinel: the handler is then in its finally block or closed,
\* so no further delta is pulled or turned into content or tool frames, and
\* there is at most one terminal frame (never an error after a completion).
C26_OnlyDoneAfterTerminal ==
    \A terminal \in {{i \in DOMAIN written : written[i].data.type \in TerminalTypes}} :
        /\ Cardinality(terminal) <= 1
        /\ \A i \in terminal :
              /\ pc \in {"finally", "closed"}
              /\ \A j \in (i + 1)..Len(written) : written[j].data.type = "[DONE]"
              /\ i >= Len(written) - 1

\* C26 witness: content, then a delta with content and finish_reason; the
\* response is closed right after the completion frame
C26_Witness ==
    /\ pc = "closed"
    /\ Len(delivered) = 2
    /\ Types = <<"content", "content", "completion", "[DONE]">>

\* the k-th tool_result or tool_error frame written
ToolFrameAt(k) ==
    LET idx == {i \in DOMAIN written : written[i].data.type \in ToolTypes}
    IN written[CHOOSE i \in idx : Cardinality({j \in idx : j <= i}) = k].data

\* C25: for every delta carrying a query_contentstack_content call with
\* complete arguments, the handler makes exactly one lookup, with the call's
\* content_type, its query or '' when absent, its limit or 5 when absent or 0,
\* and writes exactly one tool frame carrying the call's id; when the lookup
\* returned a list (empty or not) it is a tool_result whose content is the
\* JSON serialization of that list.
C25_LookupArgsAndResultFrame ==
    \A calls \in {HandledCalls} :
        /\ Len(lookups) = Len(calls)
        /\ Len(ToolFramesWritten) = Len(calls)
        /\ \A k \in DOMAIN calls :
              \A members \in {{calls[k].arguments[i] : i \in DOMAIN calls[k].arguments}} :
                 /\ lookups[k].id = calls[k].id
                 /\ lookups[k].args.content_type
                        = (IF "c" \in members THEN "product" ELSE Undefined)
                 /\ lookups[k].args.query = (IF "q" \in members THEN "laptop" ELSE "")
                 /\ lookups[k].args.limit = (IF "l" \in members THEN 3 ELSE 5)
                 /\ ToolFrameAt(k).tool_call_id = calls[k].id
                 /\ lookups[k].ok =>
                       /\ ToolFrameAt(k).type = "tool_result"
                       /\ ToolFrameAt(k).content = JSONStringify(lookups[k].results)

\* C25 witness: content_type and a limit of 0, no query; the lookup returned
\* an empty list; the turn is closed
C25_Witness ==
    /\ pc = "closed"
    /\ Len(delivered) = 1
    /\ delivered[1].tool_calls[1].arguments = <<"{", "c", "z", "}">>
    /\ lookups = <<[id |-> "t2",
                    args |-> [content_type |-> "product", query |-> "", limit |-> 5],
                    ok |-> TRUE, results |-> <<>>]>>
    /\ written[1] = ToolResultFrame("t2", <<>>)

\* the record a `data: ` line carries
RecordOf(id) == IF id = "rec_a" THEN <<"a">> ELSE <<"E9">>

\* the records of the lines of ids that come before its first terminator
RECURSIVE RecordsBeforeDone(_)
RecordsBeforeDone(ids) ==
    IF ids = <<>> \/ Head(ids) = "done" THEN <<>>
    ELSE (IF Head(ids) \in {"rec_a", "rec_e"} THEN <<RecordOf(Head(ids))>> ELSE <<>>)
         \o RecordsBeforeDone(Tail(ids))

\* a text whose two-byte characters were each cut by a chunk boundary
Mangled(text) ==
    Concat([i \in DOMAIN text |->
               IF text[i] = "E9" THEN <<"FFFD", "FFFD">> ELSE <<text[i]>>])

\* C27: when the body ends without a trailing newline, the last line is never
\* yielded: the records yielded are those of the terminated lines before it
\* (each as sent, or with its two-byte character cut by a chunk boundary),
\* whatever the last line is; and an unterminated `data: [DONE]` does not end
\* the iteration itself, it ends when the stream ends, with the text of that
\* line still in the buffer.
C27_UnterminatedTailDiscarded ==
    (openEnded /\ ppc \in {"reading", "done"}) =>
        \A front \in {SubSeq(lineIds, 1, Len(lineIds) - 1)} :
          \A expected \in {RecordsBeforeDone(front)} :
            /\ Len(yielded) <= Len(expected)
            /\ \A k \in DOMAIN yielded :
                  yielded[k] \in {expected[k], Mangled(expected[k])}
            /\ ppc = "done" => Len(yielded) = Len(expected)
            /\ (ppc = "done" /\ \A i \in DOMAIN front : front[i] # "done") =>
                  /\ pos = Len(UpstreamBytes(lineIds, openEnded))
                  /\ buffer \in {LineText(Last(lineIds)), Mangled(LineText(Last(lineIds)))}

\* C27 witness: a record, then an unterminated record; the stream has ended
\* with one record yielded and the second still in the buffer
C27_Witness ==
    /\ openEnded
    /\ ppc = "done"
    /\ lineIds = <<"rec_a", "rec_e">>
    /\ yielded = <<<<"a">>>>
    /\ buffer = Prefix \o <<"{", "E9", "}">>

\* how many entries of msgs are the turn's user message
UserCopies(msgs) == Cardinality({i \in DOMAIN msgs : msgs[i] = Message("user", UserText)})

\* C29 (as claimed): in the TS widget the message list posted for a user turn
\* holds that user message exactly once, as its last entry, whichever way the
\* turn began; and once the turn is over the message is exactly once in
\* getMessages().
C29_UserMessagePostedAndStoredOnce ==
    (widget = "ts" /\ wpc # "idle") =>
        /\ UserCopies(posted) = 1
        /\ Last(posted) = Message("user", UserText)
        /\ wpc = "done" => UserCopies(wmessages) = 1

\* the calls whose fetch or stream has not finished
InFlight == {r \in Calls : requests[r].pc \in {"fetch", "reading"}}

\* C28 (as claimed): unmount() aborts every request in flight, the first of
\* two overlapping sendMessage calls included, and once the widget is
\* unmounted nothing is added to state.messages and onMessageReceived is not
\* called.
C28_UnmountCancelsEveryRequest ==
    [][/\ unmounted' => \A r \in InFlight' : requests'[r].signal
       /\ unmounted => (wmessages' = wmessages /\ received' = received)]_vars

\* C30 (as claimed): one getOrSet call invokes the factory at most once: not
\* at all when this.get found a value, once when it did not, and never a
\* second time after the factory failed.
C30_FactoryAtMostOncePerCall ==
    /\ factoryCalls <= 1
    /\ cpc = "settled" => factoryCalls = (IF cached # Null THEN 0 ELSE 1)

====
